---- MODULE Spec2Model ----
(***************************************************************************)
(* Behavioural model of the design-pattern examples:                       *)
(*   - Observer   (src/behavioral/observer.ts, class Messenger)            *)
(*   - Chain of Responsibility (src/behavioral/chain-of-responsibility.ts) *)
(*   - Mediator   (src/unnamed/part_000, class FormMediator)               *)
(*  - Command    (src/behavioral/command.ts, class Sender)                 *)
(*  - Strategy   (src/unnamed/part_002, class Logger)                      *)
(*  - Prototype, Builder (src/unnamed/part_006)                            *)
(*  - Singleton  (src/unnamed/part_007, class Unique)                      *)
(*  - Proxy      (src/unnamed/part_004, class ProxyDataService)            *)
(*  - Memento    (src/behavioral/observer.ts, class StateMachine)          *)
(*  - Composite  (src/structural/composite.ts)                             *)
(*  - Iterator   (src/unnamed/part_003, class FoodNameIterator)            *)
(* Each example is an independent program; each has its own next-state     *)
(* relation and specification over its own variables.                      *)
(***************************************************************************)
EXTENDS Integers, Sequences, FiniteSets, TLC

VARIABLES
    \* ---- Observer ----
    subscribers,   \* Messenger.subscribers: the array this.subscribers refers to
    iter,          \* the forEach of an emitEvent call in progress (or inactive)
    delivered,     \* receiveEvent calls made by the emitEvent in progress: <<subscriber, event>>
    printed,       \* what each of those receiveEvent calls wrote to the console
    addLog,        \* arguments of the addSubscriber calls made so far, while no
                   \* removeSubscriber call has happened
    onlyAdds,      \* no removeSubscriber call has happened yet
    lastRemove,    \* the removeSubscriber call that was the latest operation:
                   \* its argument and the array before it (or NoCall)
    \* ---- Chain of Responsibility ----
    nextHandler,   \* Handler.nextHandler of each handler object
    req,           \* the handleRequest call in progress (or NoReq): its params,
                   \* the handler it entered at, the handler whose handleRequest
                   \* runs next, and one record per handleRequest frame so far
    \* ---- Mediator ----
    disabled,      \* ResetButton.disabled
    marked,        \* Checkbox.marked
    mediator,      \* BaseFormComponent.mediator of each form component
    notifications, \* the event names of the latest notify calls, oldest first
    lastNotify,    \* the FormMediator.notify call made by the latest operation
                   \* (or NoCall): event, handlers invoked, console output, and
                   \* the components' fields before the call and at its return
    buttonTrail,   \* the latest of: 'Reset' notifications the button sent, 'CheckboxMarked'
                   \* notifications the mediator handled, direct enable() calls
    lastClick,     \* the ResetButton.click call that was the latest Mediator operation (or
                   \* NoCall): the fields before it and the notifications it sent
    \* ---- Collaborators ----
    command,       \* Sender.command
    lastExec,      \* the Sender.executeCommand call that was the latest Sender operation
                   \* (or NoCall): console output, and whether it threw
    printStrategy, \* Logger.printStrategy
    lastLog,       \* the Logger.logMessage call that was the latest Logger operation
                   \* (or NoCall): console output, and whether it threw
    \* ---- Prototype ----
    heap,          \* the objects of the Prototype example: of each its prototype and its own
                   \* properties
    cloned,        \* originalDuplicant.clone() has been called
    lastWrite,     \* the property assignment that was the latest operation (or NoCall): the
                   \* Duplicant written through and what the other Duplicant showed before
    \* ---- Creational ----
    instance,      \* Unique.instance: the object held, or undefined
    constructed,   \* number of Unique objects constructed so far
    gotInstances,  \* the objects the getInstance calls returned, in call order
    carParts,      \* Car.parts of every Car object constructed so far, by object number
    builderCar,    \* SportsCarBuilder.car: the number of the Car object it refers to
    sinceGet,      \* the parts installed since the latest getCar (or construction)
    oneMake,       \* the installs since the latest getCar are those of one makeCar call
    returnedCars,  \* the cars getCar returned: object number, and the installs that
                   \* preceded the call
    directorBuilder, \* CarDirector.builder
    lastMake,      \* the CarDirector.makeCar call that was the latest Builder operation
                   \* (or NoCall), and whether it threw
    \* ---- Proxy ----
    cache,         \* ProxyDataService.cache: of every data key the own property held, if any
    requests,      \* the ProxyDataService.getData calls made so far, in call order: the params
                   \* passed, the string returned, and whether the real service was invoked
    \* ---- Memento ----
    machineState,  \* StateMachine.state
    mementos,      \* the MachineMemento objects created so far, in creation order: of each its
                   \* private state field, and the machine's state when saveState created it
    lastMachineOp, \* the latest StateMachine operation (or NoCall): which one, the machine's
                   \* state before it, the memento passed or returned, and the console line
    advanceTrail,  \* the machine's state before and after each of the latest consecutive
                   \* advanceCycle calls: no restoreState call in between, at most one
                   \* full cycle of calls
    \* ---- Composite ----
    children,      \* ContainerComponent.children of each container: the array it refers to
    parent,        \* TreeComponent.parent of each component
    lastTotal,     \* the getTotalCost call that was the latest Composite operation (or NoCall):
                   \* the component asked, and the number returned or the RangeError thrown
    \* ---- Iterator ----
    foods,         \* FoodCollection.foods: the one array object, which every iterator's data
                   \* field refers to as well (sort returns the array it sorted); foods by name
    iterators      \* the FoodNameIterator objects created so far: of each its position, the
                   \* values next() returned since its creation or latest reset(), and whether
                   \* validPosition() was true before every one of those next() calls

obsVars == <<subscribers, iter, delivered, printed, addLog, onlyAdds, lastRemove>>

chainVars == <<nextHandler, req>>

medVars == <<disabled, marked, mediator, notifications, lastNotify, buttonTrail, lastClick>>

collabVars == <<command, lastExec, printStrategy, lastLog>>

protoVars == <<heap, cloned, lastWrite>>

creatVars == <<instance, constructed, gotInstances, carParts, builderCar, sinceGet, oneMake, returnedCars, directorBuilder, lastMake>>

proxyVars == <<cache, requests>>

memVars == <<machineState, mementos, lastMachineOp, advanceTrail>>

compVars == <<children, parent, lastTotal>>

iterVars == <<foods, iterators>>

\* what the operations of one example leave alone: the other examples
notObserver == <<chainVars, medVars, collabVars, protoVars, creatVars, proxyVars, memVars, compVars, iterVars>>
notChain == <<obsVars, medVars, collabVars, protoVars, creatVars, proxyVars, memVars, compVars, iterVars>>
notMediator == <<obsVars, chainVars, collabVars, protoVars, creatVars, proxyVars, memVars, compVars, iterVars>>
notCollaborators == <<obsVars, chainVars, medVars, protoVars, creatVars, proxyVars, memVars, compVars, iterVars>>
notPrototype == <<obsVars, chainVars, medVars, collabVars, creatVars, proxyVars, memVars, compVars, iterVars>>
notCreational == <<obsVars, chainVars, medVars, collabVars, protoVars, proxyVars, memVars, compVars, iterVars>>
notProxy == <<obsVars, chainVars, medVars, collabVars, protoVars, creatVars, memVars, compVars, iterVars>>
notMemento == <<obsVars, chainVars, medVars, collabVars, protoVars, creatVars, proxyVars, compVars, iterVars>>
notComposite == <<obsVars, chainVars, medVars, collabVars, protoVars, creatVars, proxyVars, memVars, iterVars>>
notIterator == <<obsVars, chainVars, medVars, collabVars, protoVars, creatVars, proxyVars, memVars, compVars>>

vars == <<obsVars, chainVars, medVars, collabVars, protoVars, creatVars, proxyVars, memVars, compVars, iterVars>>

-----------------------------------------------------------------------------
(* Bounds of the model *)

\* number of distinct Subscriber objects
NumSubscribers == 2
\* longest subscriber array explored
MaxSubscribers == 2
\* longest request params list explored
MaxParams == 3
\* depth of nested handleRequest calls at which the call stack is exhausted
MaxStack == 5
\* number of latest notify calls whose event names are kept
MaxNotifications == 2
\* longest data array passed to Logger.logMessage
MaxData == 2
\* number of Unique.getInstance calls explored
MaxGetInstance == 3
\* number of parts installed in all cars together
MaxInstalls == 4
\* number of SportsCarBuilder.getCar calls explored
MaxCars == 2
\* longest params list passed to ProxyDataService.getData
MaxProxyParams == 2
\* number of ProxyDataService.getData calls explored
MaxRequests == 3
\* number of StateMachine.saveState calls explored
MaxMementos == 3
\* number of entries in all children arrays together
MaxChildren == 3
\* longest FoodCollection.foods array explored
MaxFoods == 3
\* number of FoodCollection.getIterator calls explored
MaxIterators == 2
\* largest FoodNameIterator.position explored
MaxPosition == 4

-----------------------------------------------------------------------------
(* Generic helpers *)

Range(s) == {s[i] : i \in 1..Len(s)}

NoDup(s) == \A i, j \in 1..Len(s) : i /= j => s[i] /= s[j]

Count(s, x) == Cardinality({i \in 1..Len(s) : s[i] = x})

\* ---- JavaScript strings: a string is a TLA+ string, a character a string of
\* length one ----

\* the characters the examples use, in the order of their UTF-16 code units
CodeUnits == " *ABCDEFGHIJKLMNOPQRSTUVWXYZ_abcdefghijklmnopqrstuvwxyz"

LowerLetters == "abcdefghijklmnopqrstuvwxyz"
UpperLetters == "ABCDEFGHIJKLMNOPQRSTUVWXYZ"

CharAt(s, i) == SubSeq(s, i, i)

\* position of character c in string s, 0 when it does not occur
PosIn(s, c) ==
    IF \E i \in 1..Len(s) : CharAt(s, i) = c
    THEN CHOOSE i \in 1..Len(s) : CharAt(s, i) = c
    ELSE 0

\* the uppercase form of every lowercase letter, and the converse
UpperOf == [c \in {CharAt(LowerLetters, i) : i \in 1..Len(LowerLetters)} |->
               CharAt(UpperLetters, PosIn(LowerLetters, c))]

LowerOf == [c \in {CharAt(UpperLetters, i) : i \in 1..Len(UpperLetters)} |->
               CharAt(LowerLetters, PosIn(UpperLetters, c))]

UpperChar(c) == IF c \in DOMAIN UpperOf THEN UpperOf[c] ELSE c

LowerChar(c) == IF c \in DOMAIN LowerOf THEN LowerOf[c] ELSE c

RECURSIVE ToLocaleUpperCase(_)
\* String.prototype.toLocaleUpperCase
ToLocaleUpperCase(s) ==
    IF Len(s) = 0 THEN ""
    ELSE UpperChar(CharAt(s, 1)) \o ToLocaleUpperCase(SubSeq(s, 2, Len(s)))

RECURSIVE ToLocaleLowerCase(_)
\* String.prototype.toLocaleLowerCase
ToLocaleLowerCase(s) ==
    IF Len(s) = 0 THEN ""
    ELSE LowerChar(CharAt(s, 1)) \o ToLocaleLowerCase(SubSeq(s, 2, Len(s)))

RECURSIVE Join(_, _)
\* Array.prototype.join(sep) on an array of strings
Join(arr, sep) ==
    IF Len(arr) = 0 THEN ""
    ELSE IF Len(arr) = 1 THEN arr[1]
    ELSE arr[1] \o sep \o Join(Tail(arr), sep)

RECURSIVE StrLess(_, _)
\* a < b on strings: lexicographic by code unit
StrLess(a, b) ==
    IF Len(b) = 0 THEN FALSE
    ELSE IF Len(a) = 0 THEN TRUE
    ELSE IF CharAt(a, 1) = CharAt(b, 1)
         THEN StrLess(SubSeq(a, 2, Len(a)), SubSeq(b, 2, Len(b)))
         ELSE PosIn(CodeUnits, CharAt(a, 1)) < PosIn(CodeUnits, CharAt(b, 1))

\* insertion of x into the ascending array arr, after the elements equal to it
InsertSorted(arr, x) ==
    LET k == Cardinality({i \in 1..Len(arr) : ~StrLess(x, arr[i])})
    IN  SubSeq(arr, 1, k) \o <<x>> \o SubSeq(arr, k + 1, Len(arr))

RECURSIVE SortStrings(_)
\* Array.prototype.sort on an array of strings: ascending by code unit
SortStrings(arr) ==
    IF Len(arr) = 0 THEN <<>>
    ELSE InsertSorted(SortStrings(SubSeq(arr, 1, Len(arr) - 1)), arr[Len(arr)])

\* Array.prototype.reverse
Reverse(arr) == [i \in 1..Len(arr) |-> arr[Len(arr) + 1 - i]]

-----------------------------------------------------------------------------
(* Observer: Messenger *)

SubscriberIds == 1..NumSubscribers

Events == {"FIRST event", "ThIrD eVeNt"}

\* the class of each Subscriber object: lowerLogger, upperLogger, ...
SubscriberClass(s) == IF s % 2 = 1 THEN "LowercaseLogger" ELSE "UppercaseLogger"

\* LowercaseLogger.receiveEvent / UppercaseLogger.receiveEvent: the two lines
\* the call writes to the console
ReceiveEvent(s, event) ==
    IF SubscriberClass(s) = "LowercaseLogger"
    THEN <<"LowercaseLogger reacting to event:", ToLocaleLowerCase(event)>>
    ELSE <<"UppercaseLogger reacting to event:", ToLocaleUpperCase(event)>>

\* (variant: a pipeline, each callback is passed what the previous one produced)
CallbackArgument_Piped(it, sofar) ==
    IF sofar = <<>> THEN it.event ELSE sofar[Len(sofar)][2]

\* s => s.receiveEvent(event): every callback is passed emitEvent's parameter
CallbackArgument(it, sofar) == it.event

\* (variant: Array.prototype.unshift instead of push)
Push_Unshift(arr, s) == <<s>> \o arr

\* Array.prototype.push
Push(arr, s) == Append(arr, s)

IndexOf(arr, x) ==
    IF \E i \in 1..Len(arr) : arr[i] = x
    THEN (CHOOSE i \in 1..Len(arr) : arr[i] = x /\ \A j \in 1..(i - 1) : arr[j] /= x) - 1
    ELSE -1

\* (variant: arr.splice(arr.indexOf(subscriber), 1); splice(-1, 1) drops the
\* last element)
Filter_SpliceIndexOf(arr, subscriber) ==
    LET at == IF IndexOf(arr, subscriber) = -1 THEN Len(arr) ELSE IndexOf(arr, subscriber) + 1
    IN  [i \in 1..(IF Len(arr) = 0 THEN 0 ELSE Len(arr) - 1) |->
            IF i < at THEN arr[i] ELSE arr[i + 1]]

\* this.subscribers.filter(s => s !== subscriber): a NEW array
Filter(arr, subscriber) == SelectSeq(arr, LAMBDA s : s /= subscriber)

\* (variant: a loop that re-reads the array length before every callback)
ForEachContinue_LiveLength(it) == it.k < Len(it.arr)

\* Array.prototype.forEach visits indices 0..len-1, len being read once, before
\* the first callback: elements pushed during the iteration are not visited.
ForEachContinue(it) == it.k < it.len

NoIter == [active |-> FALSE]

NoCall == [called |-> FALSE]

InitObserver ==
    /\ subscribers = <<>>
    /\ iter = NoIter
    /\ delivered = <<>>
    /\ printed = <<>>
    /\ addLog = <<>>
    /\ onlyAdds = TRUE
    /\ lastRemove = NoCall

\* addSubscriber(subscriber); when called from inside a receiveEvent, the
\* array being iterated is the same object unless a removeSubscriber replaced
\* this.subscribers since the forEach started (iter.shared).
AddSubscriber(s) ==
    /\ Len(subscribers) < MaxSubscribers
    /\ subscribers' = Push(subscribers, s)
    /\ iter' = IF iter.active
               THEN [iter EXCEPT !.arr = IF iter.shared THEN Push(@, s) ELSE @,
                                 !.addedDuring = TRUE]
               ELSE iter
    /\ addLog' = IF onlyAdds THEN Append(addLog, s) ELSE addLog
    /\ lastRemove' = NoCall
    /\ UNCHANGED <<delivered, printed, onlyAdds, notObserver>>

\* removeSubscriber(subscriber): this.subscribers is REASSIGNED to the filtered
\* copy; a forEach in progress keeps iterating the previous array.
RemoveSubscriber(s) ==
    /\ subscribers' = Filter(subscribers, s)
    /\ iter' = IF iter.active
               THEN [iter EXCEPT !.shared = FALSE, !.removedDuring = TRUE]
               ELSE iter
    /\ addLog' = <<>>
    /\ onlyAdds' = FALSE
    /\ lastRemove' = [called |-> TRUE, arg |-> s, before |-> subscribers]
    /\ UNCHANGED <<delivered, printed, notObserver>>

\* emitEvent(event): entry into this.subscribers.forEach(...)
EmitEvent(e) ==
    /\ ~iter.active
    /\ iter' = [active |-> TRUE, event |-> e, arr |-> subscribers,
                len |-> Len(subscribers), k |-> 0, shared |-> TRUE,
                snapshot |-> subscribers,
                startOnlyAdds |-> onlyAdds, startLog |-> addLog,
                addedDuring |-> FALSE, removedDuring |-> FALSE]
    /\ delivered' = <<>>
    /\ printed' = <<>>
    /\ lastRemove' = NoCall
    /\ UNCHANGED <<subscribers, addLog, onlyAdds, notObserver>>

\* one callback of the forEach: s.receiveEvent(event)
Deliver ==
    /\ iter.active
    /\ ForEachContinue(iter)
    /\ LET s == iter.arr[iter.k + 1]
           event == CallbackArgument(iter, printed)
       IN  /\ delivered' = Append(delivered, <<s, event>>)
           /\ printed' = Append(printed, ReceiveEvent(s, event))
    /\ iter' = [iter EXCEPT !.k = @ + 1]
    /\ lastRemove' = NoCall
    /\ UNCHANGED <<subscribers, addLog, onlyAdds, notObserver>>

\* the forEach is exhausted and emitEvent returns
EmitReturn ==
    /\ iter.active
    /\ ~ForEachContinue(iter)
    /\ iter' = NoIter
    /\ delivered' = <<>>
    /\ printed' = <<>>
    /\ lastRemove' = NoCall
    /\ UNCHANGED <<subscribers, addLog, onlyAdds, notObserver>>

EmitDone == iter.active /\ ~ForEachContinue(iter)

NextObserver ==
    \/ \E s \in SubscriberIds : AddSubscriber(s)
    \/ \E s \in SubscriberIds : RemoveSubscriber(s)
    \/ \E e \in Events : EmitEvent(e)
    \/ Deliver
    \/ EmitReturn

-----------------------------------------------------------------------------
(* Chain of Responsibility: Handler, AuthHandler, DatabaseHandler, AlertHandler *)

AUTHORIZED == "authorized"
UNAUTHORIZED == "unauthorized"
SAVE_TO_DATABASE == "save to database"
ALERT_USER == "alert user"

REQUEST_PARAMS == {AUTHORIZED, UNAUTHORIZED, SAVE_TO_DATABASE, ALERT_USER}

\* the three handler objects app() constructs, named by their variables
authHandler == "authHandler"
databaseHandler == "databaseHandler"
alertHandler == "alertHandler"

Handlers == {authHandler, databaseHandler, alertHandler}

\* the value of a nextHandler field that was never assigned
UNDEFINED == "undefined"

\* the value every handleRequest returns
NULL == "null"

ParamLists == UNION {[1..n -> REQUEST_PARAMS] : n \in 0..MaxParams}

\* params.indexOf(x) !== -1
Contains(params, x) == IndexOf(params, x) /= -1

\* (variant: AuthHandler forwards without looking at the params)
ShouldForwardRequest_AuthAlways(h, params) ==
    CASE h = authHandler     -> TRUE
      [] h = databaseHandler -> TRUE
      [] h = alertHandler    -> FALSE

\* (variant: AlertHandler forwards like DatabaseHandler)
ShouldForwardRequest_AlertForwards(h, params) ==
    CASE h = authHandler     -> Contains(params, AUTHORIZED)
      [] h = databaseHandler -> TRUE
      [] h = alertHandler    -> TRUE

\* shouldForwardRequest of each subclass: its return value
ShouldForwardRequest(h, params) ==
    CASE h = authHandler     -> Contains(params, AUTHORIZED)
      [] h = databaseHandler -> TRUE
      [] h = alertHandler    -> FALSE

\* shouldForwardRequest of each subclass: what it prints
ShouldForwardLog(h, params) ==
    CASE h = authHandler     -> IF Contains(params, AUTHORIZED)
                                THEN <<"Authorized user, forwarding...">>
                                ELSE <<"User unauthorized, stopping process...">>
      [] h = databaseHandler -> <<>>
      [] h = alertHandler    -> <<>>

\* handleRequest of each subclass, before it calls handleRequestPropagation:
\* what it prints (AuthHandler inherits Handler.handleRequest)
OwnProcessing(h, params) ==
    CASE h = authHandler     -> <<>>
      [] h = databaseHandler -> IF Contains(params, SAVE_TO_DATABASE)
                                THEN <<"Saving request to database...">>
                                ELSE <<>>
      [] h = alertHandler    -> IF Contains(params, ALERT_USER)
                                THEN <<"Sending message to user...">>
                                ELSE <<>>

\* (variant: the handler re-enters its own handleRequest instead of its
\* successor's)
ForwardTarget_Self(h, params) ==
    IF nextHandler[h] /= UNDEFINED /\ ShouldForwardRequest(h, params)
    THEN h
    ELSE NULL

\* handleRequestPropagation: the handler whose handleRequest is called, or NULL
\* when the method returns null itself
ForwardTarget(h, params) ==
    IF nextHandler[h] /= UNDEFINED /\ ShouldForwardRequest(h, params)
    THEN nextHandler[h]
    ELSE NULL

\* handleRequestPropagation: what it prints. `a && b` evaluates
\* shouldForwardRequest only when this.nextHandler is set.
PropagationLog(h, params) ==
    IF nextHandler[h] /= UNDEFINED THEN ShouldForwardLog(h, params) ELSE <<>>

NoReq == [status |-> "idle"]

InitChain ==
    /\ nextHandler = [h \in Handlers |-> UNDEFINED]
    /\ req = NoReq

\* h.setNext(g)
SetNext(h, g) ==
    /\ req.status = "idle"
    /\ nextHandler' = [nextHandler EXCEPT ![h] = g]
    /\ UNCHANGED <<req, notChain>>

\* a caller invokes h.handleRequest(params)
HandleRequest(h, params) ==
    /\ req.status = "idle"
    /\ req' = [status |-> "running", params |-> params, entry |-> h,
               cur |-> h, frames |-> <<>>]
    /\ UNCHANGED <<nextHandler, notChain>>

\* the body of one handleRequest frame: own processing, then
\* handleRequestPropagation; a forward beyond the stack limit throws RangeError.
Visit ==
    /\ req.status = "running"
    /\ LET h   == req.cur
           fwd == ForwardTarget(h, req.params)
           fr  == [h   |-> h,
                   out |-> OwnProcessing(h, req.params) \o PropagationLog(h, req.params),
                   fwd |-> fwd]
       IN  req' = [req EXCEPT
                     !.frames = Append(@, fr),
                     !.cur = IF fwd = NULL THEN h ELSE fwd,
                     !.status = IF fwd = NULL THEN "returned"
                                ELSE IF Len(req.frames) + 1 >= MaxStack THEN "RangeError"
                                ELSE "running"]
    /\ UNCHANGED <<nextHandler, notChain>>

\* the outermost handleRequest has returned (or thrown) to the caller
RequestEnd ==
    /\ req.status \in {"returned", "RangeError"}
    /\ req' = NoReq
    /\ UNCHANGED <<nextHandler, notChain>>

NextChain ==
    \/ \E h, g \in Handlers : SetNext(h, g)
    \/ \E h \in Handlers, params \in ParamLists : HandleRequest(h, params)
    \/ Visit
    \/ RequestEnd

-----------------------------------------------------------------------------
(* Mediator: BaseFormComponent, ResetButton, Checkbox, FormMediator *)

Components == {"button", "checkbox"}

\* the event names callers pass to notify: the two the components send, the
\* same names in other letter case, and names no handler is written for
EventNames == {"CheckboxMarked", "Reset", "checkboxmarked", "RESET", "reset",
               "Submit", ""}

\* the property names a FormMediator instance answers to: its fields, its
\* methods, and the methods inherited from Object.prototype
MediatorProperties ==
    {"button", "checkbox", "constructor", "notify",
     "handleCheckboxMarked", "handleReset",
     "toString", "valueOf", "hasOwnProperty"}

LowerCase(key) ==
    CASE key \in {"handleCheckboxMarked", "handlecheckboxmarked"} -> "handlecheckboxmarked"
      [] key \in {"handleReset", "handleRESET", "handlereset"}     -> "handlereset"
      [] OTHER                                                      -> key

\* (variant: the property is looked up without regard to letter case)
Lookup_IgnoreCase(key) ==
    IF \E p \in MediatorProperties : LowerCase(p) = LowerCase(key)
    THEN CHOOSE p \in MediatorProperties : LowerCase(p) = LowerCase(key)
    ELSE UNDEFINED

\* this[key]: property names are compared exactly
Lookup(key) == IF key \in MediatorProperties THEN key ELSE UNDEFINED

\* what each handler of FormMediator prints, with the component method it calls
HandlerLog(m) ==
    CASE m = "handleCheckboxMarked" ->
            <<"Mediator received CheckboxMarked event!", "Enabling reset button...">>
      [] m = "handleReset" ->
            <<"Mediator received Reset event!", "Clearing checkbox...">>

\* (variant: the handler is called without the test that it exists)
Dispatch_NoGuard(event) ==
    LET m == Lookup("handle" \o event) IN
    IF m /= UNDEFINED
    THEN [invoked |-> <<m>>, out |-> HandlerLog(m), threw |-> FALSE]
    ELSE [invoked |-> <<>>, out |-> <<>>, threw |-> TRUE]

\* FormMediator.notify: this[`handle${event}`] ? this[`handle${event}`]()
\*                                             : console.log('Unhandled event!')
Dispatch(event) ==
    LET m == Lookup("handle" \o event) IN
    IF m /= UNDEFINED
    THEN [invoked |-> <<m>>, out |-> HandlerLog(m), threw |-> FALSE]
    ELSE [invoked |-> <<>>, out |-> <<"Unhandled event!">>, threw |-> FALSE]

\* the components' fields after the handlers in `invoked` ran:
\* handleCheckboxMarked calls button.enable(), handleReset calls checkbox.clear()
AfterHandlers(invoked, d, m) ==
    [disabled |-> IF "handleCheckboxMarked" \in Range(invoked) THEN FALSE ELSE d,
     marked   |-> IF "handleReset" \in Range(invoked) THEN FALSE ELSE m]

\* the record of one notify(event) call entered with fields d, m
NotifyCall(event, d, m) ==
    LET r == Dispatch(event) IN
    [called |-> TRUE, event |-> event, invoked |-> r.invoked, out |-> r.out,
     threw |-> r.threw,
     before |-> [disabled |-> d, marked |-> m],
     after |-> AfterHandlers(r.invoked, d, m)]

\* the log of notify calls after one more call
Logged(log, event) ==
    IF Len(log) < MaxNotifications THEN Append(log, event)
    ELSE Append(Tail(log), event)

InitMediator ==
    /\ notifications = <<>>
    /\ disabled = TRUE
    /\ marked = FALSE
    /\ mediator = [c \in Components |-> UNDEFINED]
    /\ lastNotify = NoCall
    /\ buttonTrail = <<>>
    /\ lastClick = NoCall

\* new FormMediator(button, checkbox): the constructor calls setMediator(this)
\* on both components
NewFormMediator ==
    /\ mediator' = [c \in Components |-> "mediator"]
    /\ lastNotify' = NoCall
    /\ lastClick' = NoCall
    /\ UNCHANGED <<disabled, marked, notifications, buttonTrail, notMediator>>

\* button.enable()
ButtonEnable ==
    /\ disabled' = FALSE
    /\ lastNotify' = NoCall
    /\ buttonTrail' = Logged(buttonTrail, "enable()")
    /\ lastClick' = NoCall
    /\ UNCHANGED <<marked, mediator, notifications, notMediator>>

\* checkbox.clear()
CheckboxClear ==
    /\ marked' = FALSE
    /\ lastNotify' = NoCall
    /\ lastClick' = NoCall
    /\ UNCHANGED <<disabled, mediator, notifications, buttonTrail, notMediator>>

\* checkbox.click(): marked = true, then sendNotification('CheckboxMarked'),
\* which calls the mediator only if one is set
CheckboxClick ==
    /\ IF mediator["checkbox"] /= UNDEFINED
       THEN LET call == NotifyCall("CheckboxMarked", disabled, TRUE) IN
            /\ lastNotify' = call
            /\ notifications' = Logged(notifications, "CheckboxMarked")
            /\ buttonTrail' = Logged(buttonTrail, "CheckboxMarked")
            /\ disabled' = call.after.disabled
            /\ marked' = call.after.marked
       ELSE /\ lastNotify' = NoCall
            /\ marked' = TRUE
            /\ UNCHANGED <<disabled, notifications, buttonTrail>>
    /\ lastClick' = NoCall
    /\ UNCHANGED <<mediator, notMediator>>

\* (variant: click does not test the disabled flag)
ClickIgnored_Never(d) == FALSE

\* ResetButton.click: if (this.disabled) return
ClickIgnored(d) == d

\* the fields a click could change
FormFields == [disabled |-> disabled, marked |-> marked, mediator |-> mediator,
               notifications |-> notifications]

\* button.click(): returns at once while disabled; otherwise
\* sendNotification('Reset'), which calls the mediator only if one is set,
\* then disabled = true
ButtonClick ==
    /\ IF ClickIgnored(disabled)
       THEN /\ lastNotify' = NoCall
            /\ lastClick' = [called |-> TRUE, before |-> FormFields, sent |-> <<>>,
                             notified |-> <<>>]
            /\ UNCHANGED <<disabled, marked, notifications, buttonTrail>>
       ELSE IF mediator["button"] /= UNDEFINED
       THEN LET call == NotifyCall("Reset", disabled, marked) IN
            /\ lastNotify' = call
            /\ lastClick' = [called |-> TRUE, before |-> FormFields, sent |-> <<"Reset">>,
                             notified |-> <<"Reset">>]
            /\ notifications' = Logged(notifications, "Reset")
            /\ buttonTrail' = Logged(buttonTrail, "Reset")
            /\ marked' = call.after.marked
            /\ disabled' = TRUE
       ELSE /\ lastNotify' = NoCall
            /\ lastClick' = [called |-> TRUE, before |-> FormFields, sent |-> <<"Reset">>,
                             notified |-> <<>>]
            /\ buttonTrail' = Logged(buttonTrail, "Reset")
            /\ disabled' = TRUE
            /\ UNCHANGED <<marked, notifications>>
    /\ UNCHANGED <<mediator, notMediator>>

\* mediator.notify(event) called on a constructed FormMediator
Notify(event) ==
    /\ mediator["button"] /= UNDEFINED
    /\ LET call == NotifyCall(event, disabled, marked) IN
       /\ lastNotify' = call
       /\ notifications' = Logged(notifications, event)
       /\ buttonTrail' = IF "handleCheckboxMarked" \in Range(call.invoked)
                         THEN Logged(buttonTrail, "CheckboxMarked") ELSE buttonTrail
       /\ disabled' = call.after.disabled
       /\ marked' = call.after.marked
    /\ lastClick' = NoCall
    /\ UNCHANGED <<mediator, notMediator>>

NextMediator ==
    \/ NewFormMediator
    \/ ButtonEnable
    \/ CheckboxClear
    \/ CheckboxClick
    \/ ButtonClick
    \/ \E event \in EventNames : Notify(event)

-----------------------------------------------------------------------------
(* Command: Sender, LogCommand; Strategy: Logger, PrintStrategy *)

\* the two LogCommand objects app() builds, named by their variables
Commands == {"lowercaseCommand", "uppercaseCommand"}

\* the message both commands carry
CommandMessage == "CoMmAnD eXaMpLe"

\* LogCommand.execute: this.receiver.logMessage(this.message), the receiver
\* being the LowercaseLogger or the UppercaseLogger
Execute(c) ==
    IF c = "lowercaseCommand"
    THEN <<ToLocaleLowerCase(CommandMessage)>>
    ELSE <<ToLocaleUpperCase(CommandMessage)>>

\* the outcome of a call that ran to its return
Returned(out) == [called |-> TRUE, threw |-> FALSE, out |-> out]

\* the outcome of a call that ended in an uncaught TypeError: a method was
\* called on undefined
ThrewTypeError == [called |-> TRUE, threw |-> TRUE, out |-> <<>>]

\* Sender.executeCommand: this.command.execute()
ExecuteCommandOutcome(c) ==
    IF c = UNDEFINED THEN ThrewTypeError ELSE Returned(Execute(c))

\* the two PrintStrategy objects app() builds, named by their variables
Strategies == {"lowerStrategy", "upperStrategy"}

\* the strings of the message app() logs
DataWords == {"bAnAnA", "pineapple", "wATERMELon"}

DataLists == UNION {[1..n -> DataWords] : n \in 0..MaxData}

\* PrintStrategy.prepareForPrint of the two strategies
PrepareForPrint(strategy, data) ==
    IF strategy = "lowerStrategy"
    THEN ToLocaleLowerCase(Join(SortStrings(data), "_"))
    ELSE ToLocaleUpperCase(Join(Reverse(SortStrings(data)), "_"))

\* Logger.logMessage
LogMessageOutcome(strategy, data) ==
    IF strategy = UNDEFINED
    THEN Returned(<<"Please set print strategy first!">>)
    ELSE Returned(<<"Message: " \o PrepareForPrint(strategy, data)>>)

InitCollaborators ==
    /\ command = UNDEFINED
    /\ lastExec = NoCall
    /\ printStrategy = UNDEFINED
    /\ lastLog = NoCall

\* sender.command = c
SetCommand(c) ==
    /\ command' = c
    /\ lastExec' = NoCall
    /\ UNCHANGED <<printStrategy, lastLog, notCollaborators>>

\* sender.executeCommand()
ExecuteCommand ==
    /\ lastExec' = ExecuteCommandOutcome(command)
    /\ UNCHANGED <<command, printStrategy, lastLog, notCollaborators>>

\* logger.printStrategy = s
SetPrintStrategy(s) ==
    /\ printStrategy' = s
    /\ lastLog' = NoCall
    /\ UNCHANGED <<command, lastExec, notCollaborators>>

\* logger.logMessage(data)
LogMessage(data) ==
    /\ lastLog' = [LogMessageOutcome(printStrategy, data) EXCEPT !.called = TRUE]
    /\ UNCHANGED <<command, lastExec, printStrategy, notCollaborators>>

NextCollaborators ==
    \/ \E c \in Commands : SetCommand(c)
    \/ ExecuteCommand
    \/ \E s \in Strategies : SetPrintStrategy(s)
    \/ \E data \in DataLists : LogMessage(data)

-----------------------------------------------------------------------------
(* Prototype: Duplicant *)

\* originalDuplicant, duplicantData and its bio; the two objects clone() creates
ProtoObjects == {"original", "data", "bio", "clone", "cloneData"}

ProtoProps == {"id", "data", "bio", "ultra", "name", "age"}

\* a property an object does not own / owns with value v
Absent == [has |-> FALSE, v |-> UNDEFINED]
Own(v) == [has |-> TRUE, v |-> v]

NoOwn == [p \in ProtoProps |-> Absent]

RECURSIVE Get(_, _, _)
\* o.p: the own property, else the property of the prototype chain
Get(h, o, p) ==
    IF h[o].own[p].has THEN h[o].own[p].v
    ELSE IF h[o].proto = NULL THEN UNDEFINED
    ELSE Get(h, h[o].proto, p)

\* o.p = v: an own property of o is created or overwritten
Put(h, o, p, v) == [h EXCEPT ![o].own[p] = Own(v)]

\* Duplicant.clone: clone = Object.create(this);
\*                  clone.data = Object.create(this.data)
CloneHeap(h) ==
    [h EXCEPT !["clone"] = [proto |-> "original",
                            own |-> [NoOwn EXCEPT !["data"] = Own("cloneData")]],
              !["cloneData"] = [proto |-> Get(h, "original", "data"),
                                own |-> NoOwn]]

\* what a Duplicant shows: d.id, d.data.ultra, d.data.bio.name, d.data.bio.age
View(h, d) ==
    [id    |-> Get(h, d, "id"),
     ultra |-> Get(h, Get(h, d, "data"), "ultra"),
     name  |-> Get(h, Get(h, Get(h, d, "data"), "bio"), "name"),
     age   |-> Get(h, Get(h, Get(h, d, "data"), "bio"), "age")]

Duplicants == {"original", "clone"}

Other(d) == IF d = "original" THEN "clone" ELSE "original"

Ids == {7, 8}
Names == {"Ivy", "Eve"}
Ages == {27, 28}

InitPrototype ==
    /\ heap = [o \in ProtoObjects |->
                 CASE o = "original" -> [proto |-> NULL,
                                         own |-> [NoOwn EXCEPT !["id"] = Own(7), !["data"] = Own("data")]]
                   [] o = "data"     -> [proto |-> NULL,
                                         own |-> [NoOwn EXCEPT !["bio"] = Own("bio"), !["ultra"] = Own(TRUE)]]
                   [] o = "bio"      -> [proto |-> NULL,
                                         own |-> [NoOwn EXCEPT !["name"] = Own("Ivy"), !["age"] = Own(27)]]
                   [] OTHER          -> [proto |-> NULL, own |-> NoOwn]]
    /\ cloned = FALSE
    /\ lastWrite = NoCall

\* a Duplicant that exists
Exists(d) == d = "original" \/ cloned

WriteRecord(d) ==
    IF cloned
    THEN [called |-> TRUE, target |-> d, otherBefore |-> View(heap, Other(d))]
    ELSE NoCall

\* cloneDuplicant = originalDuplicant.clone()
Clone ==
    /\ ~cloned
    /\ heap' = CloneHeap(heap)
    /\ cloned' = TRUE
    /\ lastWrite' = NoCall
    /\ UNCHANGED notPrototype

\* d.id = v
SetId(d, v) ==
    /\ Exists(d)
    /\ heap' = Put(heap, d, "id", v)
    /\ lastWrite' = WriteRecord(d)
    /\ UNCHANGED <<cloned, notPrototype>>

\* d.data.ultra = v
SetUltra(d, v) ==
    /\ Exists(d)
    /\ heap' = Put(heap, Get(heap, d, "data"), "ultra", v)
    /\ lastWrite' = WriteRecord(d)
    /\ UNCHANGED <<cloned, notPrototype>>

\* d.data.bio.name = v
SetName(d, v) ==
    /\ Exists(d)
    /\ heap' = Put(heap, Get(heap, Get(heap, d, "data"), "bio"), "name", v)
    /\ lastWrite' = WriteRecord(d)
    /\ UNCHANGED <<cloned, notPrototype>>

\* d.data.bio.age = v
SetAge(d, v) ==
    /\ Exists(d)
    /\ heap' = Put(heap, Get(heap, Get(heap, d, "data"), "bio"), "age", v)
    /\ lastWrite' = WriteRecord(d)
    /\ UNCHANGED <<cloned, notPrototype>>

\* app(): `if (cloneDuplicant.data = originalDuplicant.data)`, an assignment
AppAssignData ==
    /\ cloned
    /\ heap' = Put(heap, "clone", "data", Get(heap, "original", "data"))
    /\ lastWrite' = NoCall
    /\ UNCHANGED <<cloned, notPrototype>>

NextPrototype ==
    \/ Clone
    \/ \E d \in Duplicants, v \in Ids : SetId(d, v)
    \/ \E d \in Duplicants, v \in BOOLEAN : SetUltra(d, v)
    \/ \E d \in Duplicants, v \in Names : SetName(d, v)
    \/ \E d \in Duplicants, v \in Ages : SetAge(d, v)
    \/ AppAssignData

-----------------------------------------------------------------------------
(* Singleton: Unique *)

\* (variant: the test for an existing instance is missing)
NeedsNew_Always(inst) == TRUE

\* Unique.getInstance: !Unique.instance
NeedsNew(inst) == inst = UNDEFINED

\* Unique.getInstance(); the n-th object constructed is named "Unique#n"
GetInstance ==
    /\ Len(gotInstances) < MaxGetInstance
    /\ LET new == NeedsNew(instance)
           obj == IF new THEN "Unique#" \o ToString(constructed + 1) ELSE instance
       IN  /\ instance' = obj
           /\ constructed' = IF new THEN constructed + 1 ELSE constructed
           /\ gotInstances' = Append(gotInstances, obj)
    /\ UNCHANGED <<carParts, builderCar, sinceGet, oneMake, returnedCars,
                   directorBuilder, lastMake, notCreational>>

-----------------------------------------------------------------------------
(* Builder: Car, SportsCarBuilder, CarDirector *)

SEATS == "2 seats"
ENGINE == "black horse engine"
RADIO == "sonic boom radio"

Parts == {SEATS, ENGINE, RADIO}

\* the parts of all Car objects together
RECURSIVE TotalParts(_)
TotalParts(cars) ==
    IF Len(cars) = 0 THEN 0 ELSE Len(cars[1]) + TotalParts(Tail(cars))

\* this.car.parts.push(part)
PushPart(cars, cur, part) == [cars EXCEPT ![cur] = Append(@, part)]

\* (variant: getCar returns this.car and keeps building on it)
CarAfterGet_SameCar(cars, cur) == [cars |-> cars, cur |-> cur]

\* SportsCarBuilder.getCar: this.car = new Car()
CarAfterGet(cars, cur) == [cars |-> Append(cars, <<>>), cur |-> Len(cars) + 1]

\* SportsCarBuilder.installSeats / installEngine / installRadio
Install(part) ==
    /\ TotalParts(carParts) < MaxInstalls
    /\ carParts' = PushPart(carParts, builderCar, part)
    /\ sinceGet' = Append(sinceGet, part)
    /\ oneMake' = FALSE
    /\ lastMake' = NoCall
    /\ UNCHANGED <<builderCar, returnedCars, directorBuilder,
                   instance, constructed, gotInstances, notCreational>>

\* SportsCarBuilder.getCar()
GetCar ==
    /\ Len(returnedCars) < MaxCars
    /\ LET after == CarAfterGet(carParts, builderCar) IN
       /\ carParts' = after.cars
       /\ builderCar' = after.cur
    /\ returnedCars' = Append(returnedCars,
                              [car |-> builderCar, installed |-> sinceGet,
                               oneMake |-> oneMake])
    /\ sinceGet' = <<>>
    /\ oneMake' = FALSE
    /\ lastMake' = NoCall
    /\ UNCHANGED <<directorBuilder, instance, constructed, gotInstances, notCreational>>

\* CarDirector.setBuilder(builder)
SetBuilder ==
    /\ directorBuilder' = "builder"
    /\ lastMake' = NoCall
    /\ UNCHANGED <<carParts, builderCar, sinceGet, oneMake, returnedCars,
                   instance, constructed, gotInstances, notCreational>>

\* CarDirector.makeCar(): installSeats, installEngine, installRadio on
\* this.builder; with no builder set the first call throws a TypeError
MakeCar ==
    IF directorBuilder = UNDEFINED
    THEN /\ lastMake' = ThrewTypeError
         /\ UNCHANGED <<carParts, builderCar, sinceGet, oneMake, returnedCars,
                        directorBuilder, instance, constructed, gotInstances,
                        notCreational>>
    ELSE /\ TotalParts(carParts) + 3 <= MaxInstalls
         /\ carParts' = PushPart(PushPart(PushPart(carParts, builderCar, SEATS),
                                          builderCar, ENGINE), builderCar, RADIO)
         /\ sinceGet' = sinceGet \o <<SEATS, ENGINE, RADIO>>
         /\ oneMake' = (sinceGet = <<>>)
         /\ lastMake' = Returned(<<>>)
         /\ UNCHANGED <<builderCar, returnedCars, directorBuilder,
                        instance, constructed, gotInstances, notCreational>>

InitCreational ==
    /\ instance = UNDEFINED
    /\ constructed = 0
    /\ gotInstances = <<>>
    /\ carParts = << <<>> >>
    /\ builderCar = 1
    /\ sinceGet = <<>>
    /\ oneMake = FALSE
    /\ returnedCars = <<>>
    /\ directorBuilder = UNDEFINED
    /\ lastMake = NoCall

NextCreational ==
    \/ GetInstance
    \/ \E part \in Parts : Install(part)
    \/ GetCar
    \/ SetBuilder
    \/ MakeCar

-----------------------------------------------------------------------------
(* Proxy: src/unnamed/part_004 *)

\* the strings a params list is made of
ProxyWords == {"", "ice", "Ice"}

ProxyParamLists == UNION {[1..n -> ProxyWords] : n \in 0..MaxProxyParams}

\* RealDataService.getData: params.join("*")
RealGetData(params) == Join(params, "*")

\* ProxyDataService.getDataKey: params.join('_').toLocaleUpperCase()
GetDataKey(params) == ToLocaleUpperCase(Join(params, "_"))

DataKeys == {GetDataKey(params) : params \in ProxyParamLists}

\* !this.cache[dataKey]: the key is absent (undefined) or holds the empty string
CacheMiss(c, dataKey) == ~c[dataKey].has \/ c[dataKey].v = ""

InitProxy ==
    /\ cache = [dataKey \in DataKeys |-> Absent]
    /\ requests = <<>>

\* proxy.getData(params)
GetData ==
    /\ Len(requests) < MaxRequests
    /\ \E params \in ProxyParamLists :
          LET dataKey == GetDataKey(params)
              miss == CacheMiss(cache, dataKey)
              after == IF miss THEN [cache EXCEPT ![dataKey] = Own(RealGetData(params))]
                               ELSE cache
          IN  /\ cache' = after
              /\ requests' = Append(requests, [params |-> params,
                                                result |-> after[dataKey].v,
                                                service |-> miss])
    /\ UNCHANGED notProxy

NextProxy ==
    \/ GetData

-----------------------------------------------------------------------------
(* Memento: src/behavioral/observer.ts, lines 160-244 *)

INIT == "INIT"
LOAD == "LOAD"
PROCESS == "PROCESS"
FINISH == "FINISH"

\* enum State
State == {INIT, LOAD, PROCESS, FINISH}

\* (variant: the PROCESS case goes back to INIT)
AdvanceCycle_SkipsFinish(s) ==
    CASE s = INIT -> LOAD
      [] s = LOAD -> PROCESS
      [] s = PROCESS -> INIT
      [] s = FINISH -> INIT

\* StateMachine.advanceCycle: the switch on this.state
AdvanceCycle(s) ==
    CASE s = INIT -> LOAD
      [] s = LOAD -> PROCESS
      [] s = PROCESS -> FINISH
      [] s = FINISH -> INIT

\* StateMachine.advanceCycle: the line it prints, given the state before; the
\* PROCESS and FINISH cases return before the final console.log
AdvanceLog(s) ==
    CASE s = PROCESS -> "Process finished!"
      [] s = FINISH -> "Returned to initial state"
      [] OTHER -> "Advanced to state " \o AdvanceCycle(s)

\* new MachineMemento(state): the private field holds the constructor argument
NewMachineMemento(s) == [state |-> s, savedAt |-> s]

\* MachineMemento.getState
GetState_Advanced(memento) == AdvanceCycle(memento.state)

GetState(memento) == memento.state

\* the trail after one more advanceCycle call that ended in state s: the
\* states of the latest Cardinality(State) calls are kept
Advanced(trail, s) ==
    IF Len(trail) <= Cardinality(State) THEN Append(trail, s)
    ELSE Append(Tail(trail), s)

InitMemento ==
    /\ machineState = INIT
    /\ mementos = <<>>
    /\ lastMachineOp = NoCall
    /\ advanceTrail = <<INIT>>

\* machine.advanceCycle()
AdvanceCycleCall ==
    /\ machineState' = AdvanceCycle(machineState)
    /\ lastMachineOp' = [called |-> TRUE, op |-> "advanceCycle", before |-> machineState,
                         memento |-> 0, out |-> AdvanceLog(machineState)]
    /\ advanceTrail' = Advanced(advanceTrail, AdvanceCycle(machineState))
    /\ UNCHANGED <<mementos, notMemento>>

\* machine.saveState(): the memento returned is the newest object
SaveState ==
    /\ Len(mementos) < MaxMementos
    /\ mementos' = Append(mementos, NewMachineMemento(machineState))
    /\ lastMachineOp' = [called |-> TRUE, op |-> "saveState", before |-> machineState,
                         memento |-> Len(mementos) + 1, out |-> "Saving current state..."]
    /\ UNCHANGED <<machineState, advanceTrail, notMemento>>

\* machine.restoreState(memento), for any memento a saveState call returned
RestoreState ==
    /\ \E m \in 1..Len(mementos) :
          /\ machineState' = GetState(mementos[m])
          /\ lastMachineOp' = [called |-> TRUE, op |-> "restoreState", before |-> machineState,
                               memento |-> m,
                               out |-> "State restored to " \o GetState(mementos[m])]
          /\ advanceTrail' = <<GetState(mementos[m])>>
    /\ UNCHANGED <<mementos, notMemento>>

NextMemento ==
    \/ AdvanceCycleCall
    \/ SaveState
    \/ RestoreState

-----------------------------------------------------------------------------
(* Composite: src/structural/composite.ts *)

\* app: the ContainerComponent and LeafComponent objects and their costs
Containers == {"mainPackage", "smallPackage"}
Leaves == {"mediumItem", "smallItem"}
TreeComponents == Containers \cup Leaves

Cost == [c \in TreeComponents |->
            CASE c = "mainPackage" -> 15
              [] c = "smallPackage" -> 7
              [] c = "mediumItem" -> 10
              [] c = "smallItem" -> 5]

\* TreeComponent.isContainer
IsContainer(c) == c \in Containers

RECURSIVE SumSeq(_)
SumSeq(ns) == IF ns = <<>> THEN 0 ELSE Head(ns) + SumSeq(Tail(ns))

RECURSIVE TotalChildrenOf(_, _)
TotalChildrenOf(ch, cs) ==
    IF cs = {} THEN 0
    ELSE LET c == CHOOSE x \in cs : TRUE IN Len(ch[c]) + TotalChildrenOf(ch, cs \ {c})

\* number of entries in all children arrays together
TotalChildren(ch) == TotalChildrenOf(ch, Containers)

CostReturned(n) == [threw |-> FALSE, result |-> n]
CostRangeError == [threw |-> TRUE, result |-> 0]

RECURSIVE GetTotalCost(_, _, _)
\* LeafComponent.getTotalCost / ContainerComponent.getTotalCost on component c
\* with room for stack more frames: the container calls getTotalCost on every
\* entry of its children array, in order, and adds the results to its own cost;
\* a recursion that does not end exhausts the call stack (RangeError).
GetTotalCost(ch, c, stack) ==
    IF stack = 0 THEN CostRangeError
    ELSE IF ~IsContainer(c) THEN CostReturned(Cost[c])
    ELSE LET each == [i \in 1..Len(ch[c]) |-> GetTotalCost(ch, ch[c][i], stack - 1)]
         IN  IF \E i \in 1..Len(ch[c]) : each[i].threw
             THEN CostRangeError
             ELSE CostReturned(Cost[c] + SumSeq([i \in 1..Len(ch[c]) |-> each[i].result]))

InitComposite ==
    /\ children = [c \in Containers |-> <<>>]
    /\ parent = [c \in TreeComponents |-> UNDEFINED]
    /\ lastTotal = NoCall

\* c.addChild(component): a no-op on a leaf
AddChild(c, component) ==
    /\ TotalChildren(children) < MaxChildren
    /\ IF IsContainer(c)
       THEN /\ parent' = [parent EXCEPT ![component] = c]
            /\ children' = [children EXCEPT ![c] = Push(@, component)]
       ELSE UNCHANGED <<parent, children>>
    /\ lastTotal' = NoCall
    /\ UNCHANGED notComposite

\* c.removeChild(component): a no-op on a leaf
RemoveChild(c, component) ==
    /\ IF IsContainer(c)
       THEN /\ parent' = [parent EXCEPT ![component] = NULL]
            /\ children' = [children EXCEPT ![c] = Filter(@, component)]
       ELSE UNCHANGED <<parent, children>>
    /\ lastTotal' = NoCall
    /\ UNCHANGED notComposite

\* c.getTotalCost()
GetTotalCostCall(c) ==
    /\ LET outcome == GetTotalCost(children, c, MaxStack)
       IN  lastTotal' = [called |-> TRUE, component |-> c,
                         threw |-> outcome.threw, result |-> outcome.result]
    /\ UNCHANGED <<children, parent, notComposite>>

NextComposite ==
    \/ \E c, component \in TreeComponents : AddChild(c, component)
    \/ \E c, component \in TreeComponents : RemoveChild(c, component)
    \/ \E c \in TreeComponents : GetTotalCostCall(c)

-----------------------------------------------------------------------------
(* Iterator: src/unnamed/part_003 *)

\* app: the names of the foods; a food object is identified by its name
FoodNames == {"watermelon", "chocolate", "egg"}

\* collection.getFoods().sort((a, b) => a.name > b.name ? 1 : -1): the array
\* itself, reordered in place, ascending by name (the names are distinct)
SortByName(arr) == SortStrings(arr)

\* FoodNameIterator.validPosition: this.position < this.data.length
ValidPosition(it, data) == it.position < Len(data)

\* the value of this.data[this.position]
ItemAt(it, data) == IF it.position < Len(data) THEN data[it.position + 1] ELSE UNDEFINED

\* FoodNameIterator.current
Current(it, data) == IF ~ValidPosition(it, data) THEN NULL ELSE ItemAt(it, data)

\* new FoodNameIterator(collection), and the iterator after reset(), as far as
\* the traversal is concerned
FreshIterator == [position |-> 0, yielded |-> <<>>, loop |-> TRUE]

InitIterator ==
    /\ foods = <<>>
    /\ iterators = <<>>

\* collection.addFood(food), food being an object not added before
AddFood(name) ==
    /\ Len(foods) < MaxFoods
    /\ name \notin Range(foods)
    /\ foods' = Push(foods, name)
    /\ UNCHANGED <<iterators, notIterator>>

\* collection.getIterator()
GetIterator ==
    /\ Len(iterators) < MaxIterators
    /\ foods' = SortByName(foods)
    /\ iterators' = Append(iterators, FreshIterator)
    /\ UNCHANGED notIterator

\* iterators[i].next()
NextCall(i) ==
    /\ i <= Len(iterators)
    /\ iterators[i].position < MaxPosition
    /\ iterators' = [iterators EXCEPT ![i] =
                        [position |-> @.position + 1,
                         yielded |-> Append(@.yielded, ItemAt(@, foods)),
                         loop |-> @.loop /\ ValidPosition(@, foods)]]
    /\ UNCHANGED <<foods, notIterator>>

\* iterators[i].reset()
Reset(i) ==
    /\ i <= Len(iterators)
    /\ iterators[i] /= FreshIterator
    /\ iterators' = [iterators EXCEPT ![i] = FreshIterator]
    /\ UNCHANGED <<foods, notIterator>>

NextIterator ==
    \/ \E name \in FoodNames : AddFood(name)
    \/ GetIterator
    \/ \E i \in 1..MaxIterators : NextCall(i)
    \/ \E i \in 1..MaxIterators : Reset(i)

-----------------------------------------------------------------------------
(* Specifications *)

Init == InitObserver /\ InitChain /\ InitMediator /\ InitCollaborators /\ InitPrototype /\ InitCreational /\ InitProxy /\ InitMemento /\ InitComposite /\ InitIterator

SpecObserver == Init /\ [][NextObserver]_vars

SpecChain == Init /\ [][NextChain]_vars

SpecMediator == Init /\ [][NextMediator]_vars

SpecCollaborators == Init /\ [][NextCollaborators]_vars

SpecPrototype == Init /\ [][NextPrototype]_vars

SpecCreational == Init /\ [][NextCreational]_vars

SpecProxy == Init /\ [][NextProxy]_vars

SpecMemento == Init /\ [][NextMemento]_vars

SpecComposite == Init /\ [][NextComposite]_vars

SpecIterator == Init /\ [][NextIterator]_vars

-----------------------------------------------------------------------------
(* Observer: properties *)

\* C1: after addSubscriber calls with pairwise distinct subscribers (and no
\* removeSubscriber), a finished emitEvent(e) has called receiveEvent(e) on
\* each added subscriber exactly once, in the order of the addSubscriber calls.
C1_EmitInAddOrder ==
    (EmitDone /\ iter.startOnlyAdds /\ NoDup(iter.startLog)) =>
        delivered = [i \in 1..Len(iter.startLog) |-> <<iter.startLog[i], iter.event>>]

C1_Witness ==
    /\ EmitDone /\ iter.startOnlyAdds /\ NoDup(iter.startLog)
    /\ Len(iter.startLog) >= 2
    /\ Len(delivered) >= 2

\* C2: a subscriber appears at most once in the subscriber list, and a finished
\* emitEvent has invoked each subscriber at most once.
C2_SubscribeIdempotent ==
    /\ \A s \in SubscriberIds : Count(subscribers, s) <= 1
    /\ EmitDone => \A s \in SubscriberIds : Count(delivered, <<s, iter.event>>) <= 1

\* C3: the receiveEvent calls of an emitEvent follow the subscriber list as it
\* was when emitEvent started: a subscriber added (or removed) from inside a
\* receiveEvent does not change who receives the in-flight event.
C3_SnapshotSemantics ==
    iter.active =>
        /\ iter.k <= Len(iter.snapshot)
        /\ delivered = [i \in 1..iter.k |-> <<iter.snapshot[i], iter.event>>]
        /\ EmitDone => iter.k = Len(iter.snapshot)

C3_Witness ==
    /\ EmitDone
    /\ iter.addedDuring
    /\ delivered /= <<>>
    /\ \E s \in Range(subscribers) : s \notin Range(iter.snapshot)

\* C4: removeSubscriber(s) with s not registered leaves the subscriber list
\* (members and order) as it was.
C4_RemoveAbsentNoOp ==
    (lastRemove.called /\ lastRemove.arg \notin Range(lastRemove.before)) =>
        subscribers = lastRemove.before

C4_Witness ==
    /\ lastRemove.called
    /\ lastRemove.arg \notin Range(lastRemove.before)
    /\ Len(lastRemove.before) >= 2

\* C16: in a fan-out every subscriber receives the event value exactly as it
\* was passed to emitEvent, and what a logger prints for it is what that logger
\* prints for the event on its own, whichever subscribers were called before it.
C16_FanOutIndependent ==
    /\ Len(printed) = Len(delivered)
    /\ \A i \in 1..Len(delivered) :
          /\ delivered[i][2] = iter.event
          /\ printed[i] = ReceiveEvent(delivered[i][1], iter.event)

\* the lowercase logger ran before the uppercase logger on a mixed-case event
C16_Witness ==
    /\ Len(delivered) = 2
    /\ SubscriberClass(delivered[1][1]) = "LowercaseLogger"
    /\ SubscriberClass(delivered[2][1]) = "UppercaseLogger"
    /\ iter.event = "ThIrD eVeNt"
    /\ printed[1][2] = "third event"
    /\ printed[2][2] = "THIRD EVENT"

-----------------------------------------------------------------------------
(* Chain of Responsibility: properties *)

\* the wiring app() builds: auth -> database -> alert
AppChain ==
    nextHandler = [h \in Handlers |->
                     CASE h = authHandler     -> databaseHandler
                       [] h = databaseHandler -> alertHandler
                       [] h = alertHandler    -> UNDEFINED]

\* the handlers whose handleRequest ran, in call order
Visited == [i \in 1..Len(req.frames) |-> req.frames[i].h]

RECURSIVE Walk(_, _)
Walk(h, n) ==
    IF n = 0 \/ nextHandler[h] = UNDEFINED
    THEN {}
    ELSE {nextHandler[h]} \cup Walk(nextHandler[h], n - 1)

\* the handlers reachable from h through one or more nextHandler links
Successors(h) == Walk(h, Cardinality(Handlers))

\* no handler is its own (transitive) successor
Acyclic == \A h \in Handlers : h \notin Successors(h)

RequestOver == req.status \in {"returned", "RangeError"}

\* C5: in the chain auth -> database -> alert a request entering at
\* AuthHandler reaches auth, database, alert in that order when params contains
\* 'authorized', and only auth otherwise.
C5_AuthGatesChain ==
    (RequestOver /\ AppChain /\ req.entry = authHandler) =>
        /\ req.status = "returned"
        /\ Visited = IF Contains(req.params, AUTHORIZED)
                     THEN <<authHandler, databaseHandler, alertHandler>>
                     ELSE <<authHandler>>

C5_Witness ==
    /\ RequestOver /\ AppChain /\ req.entry = authHandler
    /\ req.params = <<AUTHORIZED, SAVE_TO_DATABASE, ALERT_USER>>
    /\ Len(req.frames) = 3

\* C6 (as stated): DatabaseHandler and AlertHandler both process only if the
\* request contains their keyword and then always forward to the successor
\* whenever one is set.
C6_BothGateThenForward ==
    \A i \in 1..(IF req.status = "idle" THEN 0 ELSE Len(req.frames)) :
        LET fr == req.frames[i] IN
        fr.h \in {databaseHandler, alertHandler} =>
            /\ fr.out = OwnProcessing(fr.h, req.params)
            /\ nextHandler[fr.h] /= UNDEFINED => fr.fwd = nextHandler[fr.h]

\* C6 (amended): DatabaseHandler and AlertHandler process only if the request
\* contains their keyword; DatabaseHandler then always forwards to its
\* successor whenever one is set, AlertHandler never forwards, even when a
\* successor is set.
C6_GateThenForwardOrStop ==
    \A i \in 1..(IF req.status = "idle" THEN 0 ELSE Len(req.frames)) :
        LET fr == req.frames[i] IN
        /\ fr.h \in {databaseHandler, alertHandler} =>
              fr.out = IF Contains(req.params,
                                   IF fr.h = databaseHandler THEN SAVE_TO_DATABASE
                                                             ELSE ALERT_USER)
                       THEN <<IF fr.h = databaseHandler
                              THEN "Saving request to database..."
                              ELSE "Sending message to user...">>
                       ELSE <<>>
        /\ fr.h = databaseHandler =>
              fr.fwd = IF nextHandler[databaseHandler] /= UNDEFINED
                       THEN nextHandler[databaseHandler] ELSE NULL
        /\ fr.h = alertHandler => fr.fwd = NULL

C6_Witness ==
    /\ req.status = "returned"
    /\ nextHandler[alertHandler] /= UNDEFINED
    /\ nextHandler[databaseHandler] = alertHandler
    /\ Visited = <<databaseHandler, alertHandler>>
    /\ ~Contains(req.params, SAVE_TO_DATABASE)
    /\ Contains(req.params, ALERT_USER)

\* C7 (as stated): whatever setNext calls wired the N handlers, one
\* handleRequest visits at most N handlers, none twice, and returns.
C7_NeverRevisits ==
    req.status /= "idle" =>
        /\ NoDup(Visited)
        /\ Len(Visited) <= Cardinality(Handlers)
        /\ req.status /= "RangeError"

\* C7 (amended): when the setNext calls wired the N handlers without a cycle
\* (no handler is its own transitive successor), one handleRequest visits at
\* most N handlers, each next one the successor of the one before, none twice,
\* and returns.
C7_AcyclicNeverRevisits ==
    (req.status /= "idle" /\ Acyclic) =>
        /\ NoDup(Visited)
        /\ Len(Visited) <= Cardinality(Handlers)
        /\ \A i \in 2..Len(Visited) : Visited[i] = nextHandler[Visited[i - 1]]
        /\ req.status /= "RangeError"
        /\ req.status = "running" => req.cur \notin Range(Visited)

C7_Witness ==
    /\ req.status = "returned"
    /\ Acyclic
    /\ Len(Visited) = Cardinality(Handlers)
    /\ ~AppChain

\* what a handler's own decision logic prints for a request: the
\* authorization check of AuthHandler, the keyword gate of the other two
OwnDecision(h, params) == OwnProcessing(h, params) \o ShouldForwardLog(h, params)

\* C8: handleRequest on any handler h visits h first and then only handlers
\* reachable through successors of h (in a chain without cycles, never a
\* predecessor of h); when h has no successor, h makes its own processing
\* decision and the call returns null without error.
C8_StandaloneAndMidChain ==
    (req.status /= "idle" /\ req.frames /= <<>>) =>
        /\ Visited[1] = req.entry
        /\ \A i \in 2..Len(Visited) : Visited[i] \in Successors(req.entry)
        /\ Acyclic => \A i \in 1..Len(Visited) : req.entry \notin Successors(Visited[i])
        /\ nextHandler[req.entry] = UNDEFINED =>
              /\ req.status = "returned"
              /\ Len(req.frames) = 1
              /\ req.frames[1].fwd = NULL
              /\ req.frames[1].out = OwnDecision(req.entry, req.params)

-----------------------------------------------------------------------------
(* Mediator: properties *)

\* the methods of FormMediator that handle an event
HandlerMethods == {"handleCheckboxMarked", "handleReset"}

\* C9: notify with an event name for which no handler exists prints
\* 'Unhandled event!', throws nothing, invokes nothing, and leaves the
\* button's disabled flag and the checkbox's marked flag as they were.
C9_UnhandledIsSoftNoOp ==
    (lastNotify.called /\ ("handle" \o lastNotify.event) \notin HandlerMethods) =>
        /\ ~lastNotify.threw
        /\ lastNotify.out = <<"Unhandled event!">>
        /\ lastNotify.invoked = <<>>
        /\ lastNotify.after = lastNotify.before
        /\ disabled = lastNotify.before.disabled
        /\ marked = lastNotify.before.marked

C9_Witness ==
    /\ lastNotify.called
    /\ lastNotify.event = "Submit"
    /\ ~disabled
    /\ marked

\* C10: notify routes by exact, case-sensitive name to one handler:
\* 'CheckboxMarked' invokes only the handler that enables the button, 'Reset'
\* only the handler that clears the checkbox, any other name none.
C10_ExactNameSingleHandler ==
    lastNotify.called =>
        CASE lastNotify.event = "CheckboxMarked" ->
                /\ lastNotify.invoked = <<"handleCheckboxMarked">>
                /\ lastNotify.after = [disabled |-> FALSE,
                                       marked |-> lastNotify.before.marked]
          [] lastNotify.event = "Reset" ->
                /\ lastNotify.invoked = <<"handleReset">>
                /\ lastNotify.after = [disabled |-> lastNotify.before.disabled,
                                       marked |-> FALSE]
          [] OTHER ->
                /\ lastNotify.invoked = <<>>
                /\ lastNotify.after = lastNotify.before

C10_Witness ==
    /\ lastNotify.called
    /\ lastNotify.event = "RESET"
    /\ lastNotify.before.marked
    /\ marked

\* C19: a click on the disabled button sends no notification and changes no
\* field; a click on the enabled button sends exactly one 'Reset' notification
\* (the mediator, if one is set, is notified once) and leaves the button
\* disabled; so two 'Reset' notifications of the button always have a
\* 'CheckboxMarked' notification or a direct enable() between them.
C19_ResetNeedsEnable ==
    /\ (lastClick.called /\ lastClick.before.disabled) =>
            /\ lastClick.sent = <<>>
            /\ lastClick.notified = <<>>
            /\ FormFields = lastClick.before
    /\ (lastClick.called /\ ~lastClick.before.disabled) =>
            /\ lastClick.sent = <<"Reset">>
            /\ lastClick.notified = IF mediator["button"] /= UNDEFINED
                                    THEN <<"Reset">> ELSE <<>>
            /\ disabled
    /\ \A i \in 1..(Len(buttonTrail) - 1) :
            ~(buttonTrail[i] = "Reset" /\ buttonTrail[i + 1] = "Reset")

\* the button sent 'Reset', was enabled again by a 'CheckboxMarked'
\* notification, and the click that followed reached the mediator
C19_Witness ==
    /\ lastClick.called /\ ~lastClick.before.disabled
    /\ lastClick.notified = <<"Reset">>
    /\ Len(buttonTrail) >= 2
    /\ buttonTrail[Len(buttonTrail)] = "Reset"
    /\ buttonTrail[Len(buttonTrail) - 1] = "CheckboxMarked"
    /\ lastClick.before.marked /\ ~marked

-----------------------------------------------------------------------------
(* Command, Strategy: properties *)

\* C11: no public operation ends in an uncaught exception, a collaborator that
\* was never set included: Sender.executeCommand with no command,
\* Logger.logMessage with no strategy, CarDirector.makeCar with no builder, a
\* form component with no mediator and a handleRequest call all return normally.
C11_NoUncaughtException ==
    /\ lastExec.called => ~lastExec.threw
    /\ lastLog.called => ~lastLog.threw
    /\ lastMake.called => ~lastMake.threw
    /\ lastNotify.called => ~lastNotify.threw
    /\ req.status /= "RangeError"

-----------------------------------------------------------------------------
(* Prototype: properties *)

\* C12: clone() is a deep copy: once the clone exists, an assignment to id, a
\* data field or a data.bio field made through one Duplicant changes nothing
\* the other Duplicant shows.
C12_CloneIsDeepCopy ==
    lastWrite.called => View(heap, Other(lastWrite.target)) = lastWrite.otherBefore

-----------------------------------------------------------------------------
(* Singleton, Builder: properties *)

\* C13: every getInstance call returns the identical instance and at most one
\* Unique object is ever constructed.
C13_SingleInstance ==
    /\ constructed <= 1
    /\ \A i, j \in 1..Len(gotInstances) : gotInstances[i] = gotInstances[j]
    /\ gotInstances /= <<>> => (constructed = 1 /\ instance = gotInstances[1])

C13_Witness ==
    /\ Len(gotInstances) >= 2
    /\ constructed = 1

\* C20: every car getCar returned holds exactly the parts installed between
\* the previous getCar and its own, in installation order (seats, engine,
\* radio after one makeCar), whatever was built afterwards; the builder's
\* current car holds exactly the parts installed since the latest getCar.
C20_ReturnedCarsAreFinal ==
    /\ \A i \in 1..Len(returnedCars) :
          /\ carParts[returnedCars[i].car] = returnedCars[i].installed
          /\ returnedCars[i].oneMake =>
                carParts[returnedCars[i].car] = <<"2 seats", "black horse engine",
                                                  "sonic boom radio">>
          /\ returnedCars[i].car /= builderCar
    /\ carParts[builderCar] = sinceGet

C20_Witness ==
    /\ Len(returnedCars) >= 1
    /\ returnedCars[1].oneMake
    /\ sinceGet /= <<>>

-----------------------------------------------------------------------------
(* Proxy: properties *)

\* C14: once getData has answered a request for a params list, a later request
\* with the same params list does not invoke the real service: the real
\* service is invoked at most once per distinct params list.
C14_ServiceOncePerParams ==
    \A i, j \in 1..Len(requests) :
        (i < j /\ requests[i].params = requests[j].params) => ~requests[j].service

-----------------------------------------------------------------------------
(* Memento: properties *)

\* C15: restoreState(m) sets the machine's state to exactly the state the
\* machine had when saveState produced m, whatever calls happened in between;
\* a memento's stored state never changes after creation; saveState creates
\* one memento holding the current state and leaves the machine's state alone.
C15_RestoreReturnsSavedState ==
    /\ [](lastMachineOp.called /\ lastMachineOp.op = "restoreState"
             => machineState = mementos[lastMachineOp.memento].savedAt)
    /\ [][/\ \A m \in 1..Len(mementos) : Len(mementos') >= m /\ mementos'[m] = mementos[m]
          /\ (lastMachineOp'.called /\ lastMachineOp'.op = "saveState")
                => /\ machineState' = machineState
                   /\ Len(mementos') = Len(mementos) + 1
                   /\ mementos'[Len(mementos')].savedAt = machineState
                   /\ mementos'[Len(mementos')].state = machineState]_vars

\* a memento other than the newest was restored after the machine had moved on
C15_Witness ==
    /\ lastMachineOp.called /\ lastMachineOp.op = "restoreState"
    /\ Len(mementos) >= 2 /\ lastMachineOp.memento = 1
    /\ lastMachineOp.before /= machineState
    /\ mementos[2].state /= machineState

\* the fixed cycle, as the claim states it
CycleOrder == <<INIT, LOAD, PROCESS, FINISH>>

\* the state that follows s in the cycle
CycleNext(s) ==
    LET i == CHOOSE k \in 1..Len(CycleOrder) : CycleOrder[k] = s
    IN  CycleOrder[(i % Len(CycleOrder)) + 1]

\* C21: the machine's state is always INIT, LOAD, PROCESS or FINISH; every
\* advanceCycle call moves it to the next state of the cycle INIT -> LOAD ->
\* PROCESS -> FINISH -> INIT; four consecutive advanceCycle calls with no
\* restoreState in between bring it back to the state it started from.
C21_FixedCycle ==
    /\ machineState \in {"INIT", "LOAD", "PROCESS", "FINISH"}
    /\ (lastMachineOp.called /\ lastMachineOp.op = "advanceCycle") =>
            machineState = CycleNext(lastMachineOp.before)
    /\ advanceTrail[Len(advanceTrail)] = machineState
    /\ \A i \in 1..(Len(advanceTrail) - 1) : advanceTrail[i + 1] = CycleNext(advanceTrail[i])
    /\ \A i \in 1..(Len(advanceTrail) - 4) : advanceTrail[i + 4] = advanceTrail[i]

\* four consecutive advanceCycle calls that started in LOAD, after a restore
\* or a first lap, with a saveState among them
C21_Witness ==
    /\ lastMachineOp.called /\ lastMachineOp.op = "advanceCycle"
    /\ Len(advanceTrail) = 5
    /\ advanceTrail[1] = "LOAD"
    /\ machineState = "LOAD"
    /\ \E m \in 1..Len(mementos) : mementos[m].state = "FINISH"

-----------------------------------------------------------------------------
(* Composite: properties *)

RECURSIVE Descendants(_, _, _)
\* the components in the subtree below the components of from: everything
\* reachable through children arrays
Descendants(ch, from, seen) ==
    LET below == UNION {Range(ch[c]) : c \in from \cap Containers} \ seen
    IN  IF below = {} THEN seen ELSE Descendants(ch, below, seen \cup below)

RECURSIVE SumCosts(_)
SumCosts(cs) == IF cs = {} THEN 0
                ELSE LET c == CHOOSE x \in cs : TRUE IN Cost[c] + SumCosts(cs \ {c})

\* C17: getTotalCost returns the component's own cost plus the costs of the
\* components currently in its subtree, each counted exactly once; a leaf
\* returns its own cost; a removed child does not contribute.
C17_TotalCostCountsOnce ==
    lastTotal.called =>
        /\ ~lastTotal.threw
        /\ lastTotal.result = Cost[lastTotal.component]
              + SumCosts(Descendants(children, {lastTotal.component}, {}) \ {lastTotal.component})

-----------------------------------------------------------------------------
(* Iterator: properties *)

\* C18: whatever addFood and getIterator calls are interleaved with it, a full
\* traversal (while validPosition() call next()) yields the collection's foods
\* in ascending name order, each exactly once, and a next() called while
\* validPosition() was true returns a food.
C18_TraversalSortedOnce ==
    \A i \in 1..Len(iterators) :
        iterators[i].loop =>
            /\ UNDEFINED \notin Range(iterators[i].yielded)
            /\ ~ValidPosition(iterators[i], foods) =>
                   iterators[i].yielded = SortStrings(foods)

====
